---- MODULE Spec2Model ----
(***************************************************************************)
(* Shell Runner: command templating and execution subsystem.               *)
(*                                                                         *)
(* A string is a sequence of one-character strings, so that placeholder    *)
(* matching, escaping and replacement work on characters the way the       *)
(* TypeScript code does.                                                   *)
(***************************************************************************)
EXTENDS Integers, Sequences, FiniteSets, TLC

(***************************************************************************)
(* Characters                                                              *)
(***************************************************************************)
UpperLetters ==
    <<"A","B","C","D","E","F","G","H","I","J","K","L","M",
      "N","O","P","Q","R","S","T","U","V","W","X","Y","Z">>

LowerLetters ==
    <<"a","b","c","d","e","f","g","h","i","j","k","l","m",
      "n","o","p","q","r","s","t","u","v","w","x","y","z">>

DigitChars == <<"0","1","2","3","4","5","6","7","8","9">>

\* the grave accent character (U+0060), which a TLA+ string cannot hold
Grave == "<grave>"

UpperSet == {UpperLetters[i] : i \in 1..26}

LowerOf == [c \in UpperSet |-> LowerLetters[CHOOSE i \in 1..26 : UpperLetters[i] = c]]

\* String.prototype.toLowerCase on one character
LowerChar(c) == IF c \in UpperSet THEN LowerOf[c] ELSE c

\* String.prototype.toLowerCase
toLowerCase(s) == [i \in 1..Len(s) |-> LowerChar(s[i])]

\* Number.prototype.toString for a natural number
RECURSIVE NumToString(_)
NumToString(n) ==
    IF n < 10 THEN <<DigitChars[n + 1]>>
    ELSE NumToString(n \div 10) \o <<DigitChars[(n % 10) + 1]>>

\* flatten a sequence of strings
RECURSIVE Concat(_)
Concat(ss) == IF ss = <<>> THEN <<>> ELSE Head(ss) \o Concat(Tail(ss))

(***************************************************************************)
(* The placeholder tokens of substituteParameters                          *)
(***************************************************************************)
PH_activenote == <<"{","a","c","t","i","v","e","n","o","t","e","}">>
PH_activenotepath == <<"{","a","c","t","i","v","e","n","o","t","e","p","a","t","h","}">>
PH_activenotecontent ==
    <<"{","a","c","t","i","v","e","n","o","t","e","c","o","n","t","e","n","t","}">>
PH_selectedtext == <<"{","s","e","l","e","c","t","e","d","t","e","x","t","}">>
PH_currentdir == <<"{","c","u","r","r","e","n","t","d","i","r","}">>
PH_vaultpath == <<"{","v","a","u","l","t","p","a","t","h","}">>
PH_currentline == <<"{","c","u","r","r","e","n","t","l","i","n","e","}">>
PH_currentlinenumber ==
    <<"{","c","u","r","r","e","n","t","l","i","n","e","n","u","m","b","e","r","}">>
PH_cursorline == <<"{","c","u","r","s","o","r","l","i","n","e","}">>
PH_cursorcolumn == <<"{","c","u","r","s","o","r","c","o","l","u","m","n","}">>

\* `{prompt:${name.toLowerCase()}}`
PH_prompt(name) == <<"{","p","r","o","m","p","t",":">> \o toLowerCase(name) \o <<"}">>

(***************************************************************************)
(* ParameterContext: a function whose domain is the set of fields that are *)
(* present.  prompts, when present, is the sequence of <<keyword, value>>  *)
(* entries in insertion order (Object.entries order).                      *)
(***************************************************************************)
Has(ctx, f) == f \in DOMAIN ctx

\* context.f || ''
StrField(ctx, f) == IF Has(ctx, f) THEN ctx[f] ELSE <<>>

\* substitutions[key] = value on a Record<string,string>: an existing key keeps
\* its position, a new key goes last
SetEntry(subs, key, value) ==
    IF \E i \in 1..Len(subs) : subs[i][1] = key
    THEN [i \in 1..Len(subs) |-> IF subs[i][1] = key THEN <<key, value>> ELSE subs[i]]
    ELSE Append(subs, <<key, value>>)

FixedSubstitutions(ctx) ==
    << <<PH_activenote, StrField(ctx, "activeNote")>>,
       <<PH_activenotepath, StrField(ctx, "activeNotePath")>>,
       <<PH_activenotecontent, StrField(ctx, "activeNoteContent")>>,
       <<PH_selectedtext, StrField(ctx, "selectedText")>>,
       <<PH_currentdir, StrField(ctx, "currentDirectory")>>,
       <<PH_vaultpath, StrField(ctx, "vaultPath")>>,
       <<PH_currentline, StrField(ctx, "currentLine")>>,
       <<PH_currentlinenumber,
         IF Has(ctx, "currentLineNumber") THEN NumToString(ctx["currentLineNumber"]) ELSE <<>> >>,
       <<PH_cursorline,
         IF Has(ctx, "cursorPosition") THEN NumToString(ctx["cursorPosition"].line) ELSE <<>> >>,
       <<PH_cursorcolumn,
         IF Has(ctx, "cursorPosition") THEN NumToString(ctx["cursorPosition"].ch) ELSE <<>> >> >>

RECURSIVE AddPrompts(_, _, _)
AddPrompts(subs, prompts, i) ==
    IF i > Len(prompts) THEN subs
    ELSE AddPrompts(SetEntry(subs, PH_prompt(prompts[i][1]), prompts[i][2]), prompts, i + 1)

\* the substitutions record, as the sequence of its entries
Substitutions(ctx) ==
    IF Has(ctx, "prompts")
    THEN AddPrompts(FixedSubstitutions(ctx), ctx["prompts"], 1)
    ELSE FixedSubstitutions(ctx)

(***************************************************************************)
(* Platform and shell resolution                                           *)
(***************************************************************************)
SupportedShells == {"bash", "zsh", "busybox", "csh", "dash"}

\* segs.join('/')
RECURSIVE JoinPath(_)
JoinPath(segs) ==
    IF Len(segs) = 0 THEN ""
    ELSE IF Len(segs) = 1 THEN segs[1]
    ELSE segs[1] \o "/" \o JoinPath(Tail(segs))

\* systemShell.split('/').pop() || systemShell, on the '/'-separated segments
BaseName(segs) == IF segs[Len(segs)] # "" THEN segs[Len(segs)] ELSE JoinPath(segs)

\* variant: the detected name is returned without the test against the list
getShellNameForShescape_Unlisted(st, plat, env) ==
    IF st.shellProgram = "auto"
    THEN IF plat = "win32" THEN "powershell"
         ELSE IF env.SHELL # <<>> THEN BaseName(env.SHELL) ELSE "bash"
    ELSE st.shellProgram

\* getShellNameForShescape; env.SHELL is the segment list of process.env.SHELL,
\* <<>> when it is unset or empty
getShellNameForShescape(st, plat, env) ==
    IF st.shellProgram = "auto"
    THEN IF plat = "win32" THEN "powershell"
         ELSE IF env.SHELL # <<>>
              THEN IF BaseName(env.SHELL) \in SupportedShells
                   THEN BaseName(env.SHELL) ELSE "bash"
              ELSE "bash"
    ELSE st.shellProgram

\* the shell names the Shescape constructor accepts on a platform; any other
\* name makes it throw
ShescapeSupports(plat, name) ==
    IF plat = "win32" THEN name \in {"cmd", "powershell"}
    ELSE name \in SupportedShells

\* createShescapeInstance: the dialect the executor escapes for
createShescapeInstance(st, plat, env) ==
    IF ShescapeSupports(plat, getShellNameForShescape(st, plat, env))
    THEN getShellNameForShescape(st, plat, env)
    ELSE "bash"

(***************************************************************************)
(* escapeShellArgument                                                     *)
(***************************************************************************)
\* the characters Shescape#escape prefixes, and the prefix, per dialect
EscapePrefix(dialect) ==
    CASE dialect = "cmd" -> "^"
      [] dialect = "powershell" -> Grave
      [] OTHER -> "\\"

EscapedChars(dialect) ==
    CASE dialect = "cmd" -> {"\"", "%", "&", "<", ">", "^", "|"}
      [] dialect = "powershell" -> {"$", "&", "'", "(", ")", ",", ";", "{", "|", "}", Grave}
      [] OTHER -> {"\\", "\"", "$", "&", "'", "(", ")", "*", ";", "<", ">", "?", Grave, "{", "|"}

\* this.shescape.escape(arg)
ShescapeEscape(dialect, arg) ==
    Concat([i \in 1..Len(arg) |->
              IF arg[i] \in EscapedChars(dialect)
              THEN <<EscapePrefix(dialect), arg[i]>> ELSE <<arg[i]>>])

\* Shescape#escape throws for an argument that is not a string; every value
\* substituteParameters passes is one
ShescapeThrows(arg) == FALSE

\* /[^\w\-./]/.test(arg)
WordChars ==
    {UpperLetters[i] : i \in 1..26} \cup {LowerLetters[i] : i \in 1..26}
        \cup {DigitChars[i] : i \in 1..10} \cup {"_", "-", ".", "/"}

\* arg.replace(/"/g, '\\"')
EscapeQuotes(arg) ==
    Concat([i \in 1..Len(arg) |-> IF arg[i] = "\"" THEN <<"\\", "\"">> ELSE <<arg[i]>>])

escapeShellArgument(dialect, arg) ==
    IF arg = <<>> THEN <<"\"", "\"">>
    ELSE IF ~ShescapeThrows(arg) THEN ShescapeEscape(dialect, arg)
    ELSE IF \E i \in 1..Len(arg) : arg[i] \notin WordChars
         THEN <<"\"">> \o EscapeQuotes(arg) \o <<"\"">>
         ELSE arg

(***************************************************************************)
(* new RegExp(placeholder.replace(/[{}]/g, '\\$&'), 'gi') and               *)
(* String.prototype.replace(regex, replacement)                            *)
(***************************************************************************)
\* placeholder.replace(/[{}]/g, '\\$&')
EscapeBraces(p) ==
    Concat([i \in 1..Len(p) |-> IF p[i] \in {"{", "}"} THEN <<"\\", p[i]>> ELSE <<p[i]>>])

\* the pattern as a sequence of atoms: an escaped or ordinary character is a
\* literal, '.' matches any character but a line terminator
RECURSIVE ParseRegex(_, _)
ParseRegex(src, i) ==
    IF i > Len(src) THEN <<>>
    ELSE IF src[i] = "\\" /\ i < Len(src)
         THEN <<[any |-> FALSE, ch |-> src[i + 1]]>> \o ParseRegex(src, i + 2)
    ELSE IF src[i] = "."
         THEN <<[any |-> TRUE, ch |-> "."]>> \o ParseRegex(src, i + 1)
    ELSE <<[any |-> FALSE, ch |-> src[i]]>> \o ParseRegex(src, i + 1)

PlaceholderRegex(p) == ParseRegex(EscapeBraces(p), 1)

\* new RegExp throws SyntaxError for a pattern with a group that is opened
\* and not closed
RegExpThrows(p) ==
    \E i \in 1..Len(p) : p[i] = "(" /\ ~\E j \in (i + 1)..Len(p) : p[j] = ")"

\* flag i: characters are compared after case folding
AtomMatches(a, c) ==
    IF a.any THEN c # "\n" ELSE a.ch = c \/ LowerChar(a.ch) = LowerChar(c)

\* A string under substitution carries, per character, whether the character
\* was put there by a replacement (v = TRUE) or comes from the template.
Tagged(s, v) == [i \in 1..Len(s) |-> [c |-> s[i], v |-> v]]
Untagged(ts) == [i \in 1..Len(ts) |-> ts[i].c]

MatchAt(ts, i, atoms) ==
    /\ i + Len(atoms) - 1 <= Len(ts)
    /\ \A k \in 1..Len(atoms) : AtomMatches(atoms[k], ts[i + k - 1].c)

\* GetSubstitution for a pattern without capture groups: $$ is a dollar sign,
\* $& the match, $` the text before the match, $' the text after it
RECURSIVE GetSubstitution(_, _, _, _, _)
GetSubstitution(repl, j, matched, before, after) ==
    IF j > Len(repl) THEN <<>>
    ELSE IF repl[j] = "$" /\ j < Len(repl) /\ repl[j + 1] \in {"$", "&", Grave, "'"}
         THEN (CASE repl[j + 1] = "$" -> <<"$">>
                 [] repl[j + 1] = "&" -> matched
                 [] repl[j + 1] = Grave -> before
                 [] OTHER -> after)
              \o GetSubstitution(repl, j + 2, matched, before, after)
    ELSE <<repl[j]>> \o GetSubstitution(repl, j + 1, matched, before, after)

\* the text one match is replaced with
Replacement(ts, i, atoms, repl) ==
    GetSubstitution(repl, 1,
                    Untagged(SubSeq(ts, i, i + Len(atoms) - 1)),
                    Untagged(SubSeq(ts, 1, i - 1)),
                    Untagged(SubSeq(ts, i + Len(atoms), Len(ts))))

\* substituted.replace(regex, repl) with flag g: the matches are found left to
\* right in the string as it was before the call, without overlap
RECURSIVE ReplaceFrom(_, _, _, _)
ReplaceFrom(ts, i, atoms, repl) ==
    IF i > Len(ts) THEN <<>>
    ELSE IF MatchAt(ts, i, atoms)
         THEN Tagged(Replacement(ts, i, atoms, repl), TRUE)
              \o ReplaceFrom(ts, i + Len(atoms), atoms, repl)
    ELSE <<ts[i]>> \o ReplaceFrom(ts, i + 1, atoms, repl)

\* a string without a match is returned as it is
ReplaceAll(ts, atoms, repl) ==
    IF \E i \in 1..Len(ts) : MatchAt(ts, i, atoms)
    THEN ReplaceFrom(ts, 1, atoms, repl)
    ELSE ts

\* the start positions of the matches of one replace call
RECURSIVE MatchStarts(_, _, _)
MatchStarts(ts, i, atoms) ==
    IF i > Len(ts) THEN {}
    ELSE IF MatchAt(ts, i, atoms)
         THEN {i} \cup MatchStarts(ts, i + Len(atoms), atoms)
    ELSE MatchStarts(ts, i + 1, atoms)

(***************************************************************************)
(* substituteParameters                                                    *)
(***************************************************************************)
\* the loop over Object.entries(substitutions), from entry k on
RECURSIVE SubstituteFrom(_, _, _, _)
SubstituteFrom(ts, subs, k, dialect) ==
    IF k > Len(subs) THEN ts
    ELSE SubstituteFrom(
             ReplaceAll(ts, PlaceholderRegex(subs[k][1]),
                        escapeShellArgument(dialect, subs[k][2])),
             subs, k + 1, dialect)

substituteParameters(command, ctx, dialect) ==
    Untagged(SubstituteFrom(Tagged(command, FALSE), Substitutions(ctx), 1, dialect))

\* the loop throws when it builds the RegExp of a placeholder that is not a
\* valid pattern
substituteThrows(ctx) ==
    \E k \in 1..Len(Substitutions(ctx)) : RegExpThrows(Substitutions(ctx)[k][1])

(***************************************************************************)
(* Shell selection                                                         *)
(***************************************************************************)
\* variant: SHELL is returned without the test against the list
detectDefaultShell_Unlisted(plat, env) ==
    IF plat = "win32"
    THEN IF env.COMSPEC # "" THEN env.COMSPEC ELSE "cmd.exe"
    ELSE IF env.SHELL # <<>> THEN JoinPath(env.SHELL) ELSE "/bin/bash"

\* detectDefaultShell; env.COMSPEC is "" when unset
detectDefaultShell(plat, env) ==
    IF plat = "win32"
    THEN IF env.COMSPEC # "" THEN env.COMSPEC ELSE "cmd.exe"
    ELSE IF env.SHELL # <<>> /\ BaseName(env.SHELL) \in SupportedShells
         THEN JoinPath(env.SHELL)
         ELSE "/bin/bash"

getShellPath(plat, shell) ==
    IF plat = "win32"
    THEN (CASE shell = "cmd" -> "cmd.exe"
            [] shell = "powershell" -> "powershell.exe"
            [] OTHER -> "cmd.exe")
    ELSE (CASE shell = "bash" -> "/bin/bash"
            [] shell = "zsh" -> "/bin/zsh"
            [] shell = "busybox" -> "/bin/busybox"
            [] shell = "csh" -> "/bin/csh"
            [] shell = "dash" -> "/bin/dash"
            [] OTHER -> "/bin/bash")

getSelectedShell(st, plat, env) ==
    IF st.shellProgram = "auto" THEN detectDefaultShell(plat, env)
    ELSE getShellPath(plat, st.shellProgram)

\* every branch of the switch returns '-l'
getLoginFlag(shell) == "-l"

\* variant: the platform is not tested
getShellWithLoginFlag_AnyPlatform(st, plat, env) ==
    IF ~st.useLoginShell
    THEN <<getSelectedShell(st, plat, env)>>
    ELSE <<getSelectedShell(st, plat, env), getLoginFlag(getSelectedShell(st, plat, env))>>

getShellWithLoginFlag(st, plat, env) ==
    IF plat = "win32" \/ ~st.useLoginShell
    THEN <<getSelectedShell(st, plat, env)>>
    ELSE <<getSelectedShell(st, plat, env), getLoginFlag(getSelectedShell(st, plat, env))>>

(***************************************************************************)
(* Bounds and input sets                                                   *)
(***************************************************************************)
\* granularity of the clock that runs while a child process is alive
TickMs == 15000

\* the clock stops here when no timeout is armed
MaxElapsedMs == 40000

\* timeout: 30000 in execOptions
ExecTimeoutMs == 30000

Cmd_pwd == <<"p","w","d">>
Cmd_selvault == PH_selectedtext \o <<" ","{","V","a","u","l","t","P","a","t","h","}">>
Cmd_prompt == <<"e"," ">> \o PH_prompt(<<"a">>) \o <<" ">> \o PH_prompt(<<"b">>)

\* templates with prompt tokens: a token that differs from the keyword a.b in
\* the place of the dot, tokens in upper and in lower case, a keyword with an
\* opening parenthesis, an unknown token next to a known one
Cmd_axb == <<"e", " ">> \o PH_prompt(<<"a", "x", "b">>)
Cmd_PK == <<"{","P","R","O","M","P","T",":","K","}">>
Cmd_pk == PH_prompt(<<"k">>)
Cmd_paren == PH_prompt(<<"a", "(", "b">>)
Cmd_unknown == <<"{", "f", "o", "o", "}", " ">> \o PH_prompt(<<"z">>)

\* the keywords of the prompts a command template asks for
PromptsOf(command) ==
    CASE command = Cmd_prompt -> << <<"a">>, <<"b">> >>
      [] command = Cmd_axb -> << <<"a", ".", "b">> >>
      [] command = Cmd_PK -> << <<"k">> >>
      [] command = Cmd_pk -> << <<"K">> >>
      [] command = Cmd_paren -> << <<"a", "(", "b">> >>
      [] command = Cmd_unknown -> << <<"z">> >>
      [] OTHER -> <<>>

DefaultActions == {"none", "copy", "replace", "insert", "append"}

\* CommandScript values the user may have configured
ScriptOf(c, b, a) ==
    [id |-> 0, name |-> <<"N">>, enabled |-> TRUE,
     command |-> c, prompts |-> PromptsOf(c), backgroundExecution |-> b, defaultAction |-> a,
     workingDirectory |-> <<>>, useAbsolutePath |-> FALSE]

Commands == {Cmd_pwd, Cmd_selvault, Cmd_prompt}

Scripts ==
    {ScriptOf(c, FALSE, a) : c \in Commands, a \in DefaultActions}
        \cup {ScriptOf(c, TRUE, a) : c \in Commands, a \in {"none", "copy"}}

NoScript == ScriptOf(<<>>, FALSE, "none")

\* texts the user may have selected
Selections == {<<>>, PH_vaultpath, <<"$", Grave>>}

\* values the user may type into a prompt field
PromptValues == {PH_prompt(<<"b">>)}

SubstCommands == {Cmd_axb, Cmd_PK, Cmd_pk, Cmd_paren, Cmd_unknown}

SubstScripts == {ScriptOf(c, FALSE, "none") : c \in SubstCommands}

SubstValues == {<<"v">>, <<"$", "$">>}

\* what a child process may have written to stdout and stderr
Streams == {[stdout |-> <<"o">>, stderr |-> <<>>], [stdout |-> <<>>, stderr |-> <<"w">>]}

\* exit codes of a child that ran and failed
FailureCodes == {2}

VaultRoot == <<"/","v">>

\* values of adapter.getResourcePath(""): an app:// URL, a file:// URL with an
\* escape sequence, a file:// URL with a malformed escape sequence
AppResource == <<"a","p","p",":","/","/","l","/","v">>
EscapedResource == <<"f","i","l","e",":","/","/","/","%","7","6">>
MalformedResource == <<"f","i","l","e",":","/","/","/","%">>

\* process.cwd() of the host application
ProcessCwd == <<"/","c">>

(***************************************************************************)
(* Values of an error's code property: a number, a string, or null         *)
(***************************************************************************)
Num(n) == [t |-> "num", n |-> n, s |-> ""]
Str(x) == [t |-> "str", n |-> 0, s |-> x]
Null == [t |-> "null", n |-> 0, s |-> ""]

\* JavaScript truthiness of such a value
Truthy(v) == (v.t = "num" /\ v.n # 0) \/ (v.t = "str" /\ v.s # "")

\* a || b on strings
OrElse(a, b) == IF a # <<>> THEN a ELSE b

(***************************************************************************)
(* State                                                                   *)
(***************************************************************************)
VARIABLES
    platform,           \* process.platform
    env,                \* process.env: SHELL (path segments), COMSPEC
    adapter,            \* app.vault.adapter: getResourcePath(""), basePath
    settings,           \* PluginSettings
    editor,             \* the active MarkdownView's editor: the cursor's line number and, on
                        \* that line, the text before, in and after the selection
    file,               \* the active file and its content in the vault
    clipboard,          \* the system clipboard
    pluginShescape,     \* dialect of the escaper of plugin.terminalExecutor
    heap,               \* the CommandScript objects, by reference (position)
    settingsCommands,   \* settings.commands: references into heap
    registeredCommandIds, \* plugin.registeredCommandIds
    appCommands,        \* the commands addCommand gave to Obsidian: id and the
                        \* reference the callback captured, in the order of the calls
    editModal,          \* the CommandEditModal: its command object, its saveTimeout
    now,                \* Date.now(), in clicks since the plugin loaded
    pc,                 \* "idle", "prompt" (PromptModal open), "running" (awaiting the child), "done"
    entry,              \* how the run was triggered: "palette", "selector", "terminal"
    script,             \* the CommandScript of the run
    runShescape,        \* dialect of the escaper of the executor of the run
    context,            \* the ParameterContext of the run
    promptResults,      \* PromptModal.results
    substitutedCommand, \* the command handed to executeCommand
    child,              \* the child process: how it was started, its clock, how it ended
    result,             \* <<>> or <<r>>, r the CommandExecutionResult returned
    rejected,           \* the promise of executeCommand / executeInTerminal rejected
    modalOpened,        \* number of CommandResultModal opened
    actionsCompleted,   \* number of performAction calls that returned normally
    actionThrew,        \* a host call made by performAction failed
    notices             \* the kinds of Notice shown

\* the state the settings tab works on
tabVars == <<heap, settingsCommands, registeredCommandIds, appCommands, editModal, now>>

vars == <<tabVars, platform, env, adapter, settings, editor, file, clipboard, pluginShescape, pc, entry,
          script, runShescape, context, promptResults, substitutedCommand, child, result,
          rejected, modalOpened, actionsCompleted, actionThrew, notices>>

(***************************************************************************)
(* Registration of the user commands in the command palette                *)
(***************************************************************************)
\* `user-command-${script.id}`
CommandIdOf(id) == <<"user-command", id>>

\* variant: the command is added whether or not its id is registered
registerSingleCommand_Unchecked(reg, ref, h) ==
    [ids |-> Append(reg.ids, CommandIdOf(h[ref].id)),
     app |-> Append(reg.app, [id |-> CommandIdOf(h[ref].id), script |-> ref])]

\* registerSingleCommand: reg.ids is registeredCommandIds, reg.app what
\* addCommand was given; the callback keeps the script object it was made for.
\* addCommand is taken not to throw.
registerSingleCommand(reg, ref, h) ==
    IF \E k \in 1..Len(reg.ids) : reg.ids[k] = CommandIdOf(h[ref].id)
    THEN reg
    ELSE [ids |-> Append(reg.ids, CommandIdOf(h[ref].id)),
          app |-> Append(reg.app, [id |-> CommandIdOf(h[ref].id), script |-> ref])]

\* registerUserCommands: the enabled commands, in the order of settings.commands
RECURSIVE registerUserCommands(_, _, _, _)
registerUserCommands(reg, cmds, h, i) ==
    IF i > Len(cmds) THEN reg
    ELSE registerUserCommands(IF h[cmds[i]].enabled
                              THEN registerSingleCommand(reg, cmds[i], h) ELSE reg,
                              cmds, h, i + 1)

\* saveSettings: saveData, then refreshUserCommands, which registers again
saveSettings(cmds, h) ==
    LET reg == registerUserCommands([ids |-> registeredCommandIds, app |-> appCommands],
                                    cmds, h, 1)
    IN  registeredCommandIds' = reg.ids /\ appCommands' = reg.app

\* the command read from the data file
LoadedCommand(en) == [ScriptOf(Cmd_pwd, FALSE, "none") EXCEPT !.enabled = en]

NoModal == [open |-> FALSE, mode |-> "none", index |-> 0, command |-> 0,
            saveTimeout |-> FALSE, unsaved |-> FALSE]

\* onload: loadSettings, then registerUserCommands
Onload(en) ==
    LET reg == registerUserCommands([ids |-> <<>>, app |-> <<>>], <<1>>,
                                    <<LoadedCommand(en)>>, 1)
    IN  /\ heap = <<LoadedCommand(en)>>
        /\ settingsCommands = <<1>>
        /\ registeredCommandIds = reg.ids
        /\ appCommands = reg.app
        /\ editModal = NoModal
        /\ now = 0

\* shellCommand: the shell and its flags; cwd: the working directory;
\* outcome: how the child ended; code, stdout, stderr: what it then reported
NoChild == [state |-> "none", via |-> "none", shellCommand |-> <<>>, cwd |-> <<>>,
            timeout |-> 0, elapsed |-> 0, detached |-> FALSE,
            outcome |-> "none", code |-> Null, stdout |-> <<>>, stderr |-> <<>>]

Init ==
    /\ platform \in {"linux", "win32"}
    /\ env \in [SHELL : {<<>>, <<"", "bin", "zsh">>}, COMSPEC : {""}]
    /\ (platform = "win32") = (env.SHELL = <<>>)
    /\ adapter = [resource |-> AppResource, throws |-> FALSE, basePath |-> VaultRoot]
    /\ settings \in [shellProgram : {"auto", "cmd"},
                     useLoginShell : BOOLEAN,
                     showNotifications : {TRUE},
                     defaultWorkingDirectory : {<<>>}]
    /\ ShescapeSupports(platform, getShellNameForShescape(settings, platform, env))
    /\ platform = "win32" => ~settings.useLoginShell
    /\ editor \in [present : BOOLEAN, line : {0}, before : {<<"x">>}, sel : Selections,
                   after : {<<"y">>}]
    /\ ~editor.present => editor.sel = <<>>
    /\ file \in [present : BOOLEAN, content : {<<"n">>}]
    /\ clipboard = <<>>
    /\ pluginShescape = createShescapeInstance(settings, platform, env)
    /\ Onload(TRUE)
    /\ pc = "idle"
    /\ entry = "none"
    /\ script = NoScript
    /\ runShescape = "none"
    /\ context = <<>>
    /\ promptResults = <<>>
    /\ substitutedCommand = <<>>
    /\ child = NoChild
    /\ result = <<>>
    /\ rejected = FALSE
    /\ modalOpened = 0
    /\ actionsCompleted = 0
    /\ actionThrew = FALSE
    /\ notices = {}

(***************************************************************************)
(* getVaultPath                                                            *)
(***************************************************************************)
FilePrefix == <<"f","i","l","e",":","/","/">>

\* resourcePath.startsWith(prefix)
StartsWith(str, prefix) ==
    Len(str) >= Len(prefix) /\ SubSeq(str, 1, Len(prefix)) = prefix

\* the escape sequences decodeURIComponent meets in the paths considered
PercentCodes == (<<"7", "6">> :> "v") @@ (<<"2", "0">> :> " ")

\* decodeURIComponent throws URIError on a '%' that no escape sequence follows
RECURSIVE DecodeThrows(_, _)
DecodeThrows(str, i) ==
    IF i > Len(str) THEN FALSE
    ELSE IF str[i] = "%"
         THEN \/ i + 2 > Len(str)
              \/ <<str[i + 1], str[i + 2]>> \notin DOMAIN PercentCodes
              \/ DecodeThrows(str, i + 3)
    ELSE DecodeThrows(str, i + 1)

RECURSIVE decodeURIComponent(_, _)
decodeURIComponent(str, i) ==
    IF i > Len(str) THEN <<>>
    ELSE IF str[i] = "%"
         THEN <<PercentCodes[<<str[i + 1], str[i + 2]>>]>> \o decodeURIComponent(str, i + 3)
    ELSE <<str[i]>> \o decodeURIComponent(str, i + 1)

\* resourcePath.replace('file://', '') on a string that starts with it
StripFilePrefix(str) == SubSeq(str, Len(FilePrefix) + 1, Len(str))

\* ad.throws: getResourcePath throws; ad.basePath is <<>> when the adapter has none
getVaultPath(ad) ==
    IF ad.throws THEN OrElse(ad.basePath, <<>>)
    ELSE IF StartsWith(ad.resource, FilePrefix)
         THEN IF DecodeThrows(StripFilePrefix(ad.resource), 1)
              THEN OrElse(ad.basePath, <<>>)
              ELSE decodeURIComponent(StripFilePrefix(ad.resource), 1)
    ELSE IF ad.basePath # <<>> THEN ad.basePath
    ELSE <<>>

(***************************************************************************)
(* getParameterContext                                                     *)
(***************************************************************************)
EditorText(ed) == ed.before \o ed.sel \o ed.after

\* editor.getCursor(): the head of the selection, on line ed.line
EditorCursor(ed) == [line |-> ed.line, ch |-> Len(ed.before) + Len(ed.sel)]

\* variant: the line number is the editor's 0-based one
getParameterContext_ZeroBased(ed, f, ad, readOk) ==
    ("vaultPath" :> getVaultPath(ad))
    @@ (IF f.present
        THEN ("activeNote" :> <<"n">>) @@ ("activeNotePath" :> <<"n", ".", "m", "d">>)
             @@ ("currentDirectory" :> <<"/">>)
             @@ ("activeNoteContent" :> (IF readOk THEN f.content ELSE <<>>))
        ELSE <<>>)
    @@ (IF ed.present
        THEN (IF ed.sel # <<>> THEN ("selectedText" :> ed.sel) ELSE <<>>)
             @@ ("cursorPosition" :> EditorCursor(ed))
             @@ ("currentLineNumber" :> EditorCursor(ed).line)
             @@ ("currentLine" :> EditorText(ed))
        ELSE <<>>)

\* readOk: whether this.app.vault.read(activeFile) succeeds
getParameterContext(ed, f, ad, readOk) ==
    ("vaultPath" :> getVaultPath(ad))
    @@ (IF f.present
        THEN ("activeNote" :> <<"n">>) @@ ("activeNotePath" :> <<"n", ".", "m", "d">>)
             @@ ("currentDirectory" :> <<"/">>)
             @@ ("activeNoteContent" :> (IF readOk THEN f.content ELSE <<>>))
        ELSE <<>>)
    @@ (IF ed.present
        THEN (IF ed.sel # <<>> THEN ("selectedText" :> ed.sel) ELSE <<>>)
             @@ ("cursorPosition" :> EditorCursor(ed))
             @@ ("currentLineNumber" :> (EditorCursor(ed).line + 1))
             @@ ("currentLine" :> EditorText(ed))
        ELSE <<>>)

\* context.prompts = promptResults
WithPrompts(ctx, pr) == ("prompts" :> pr) @@ ctx

(***************************************************************************)
(* performAction and the four actions.  h says which host calls succeed:   *)
(* h.clip (navigator.clipboard.writeText), h.read (vault.read),            *)
(* h.modify (vault.modify).  The value is the host state afterwards,       *)
(* the notices shown, and threw: whether the call ended by throwing.       *)
(***************************************************************************)
HostOutcomes == [clip : BOOLEAN, read : BOOLEAN, modify : BOOLEAN]

\* the host calls an action makes can fail; the others are not made
HostOutcomesOf(action) ==
    {h \in HostOutcomes :
        /\ action # "copy" => h.clip
        /\ action # "append" => h.read /\ h.modify}

Effect(ed, f, cb, ns, threw) ==
    [editor |-> ed, file |-> f, clipboard |-> cb, notices |-> ns, threw |-> threw]

copyToClipboard(text, ed, f, cb, h) ==
    IF h.clip THEN Effect(ed, f, text, {"copied"}, FALSE)
    ELSE Effect(ed, f, cb, {}, TRUE)

\* variant: the selection is not tested
replaceSelection_Unchecked(text, ed, f, cb) ==
    IF ed.present
    THEN Effect([ed EXCEPT !.before = ed.before \o text, !.sel = <<>>], f, cb,
                {"replaced"}, FALSE)
    ELSE Effect(ed, f, cb, {"no-editor"}, FALSE)

replaceSelection(text, ed, f, cb) ==
    IF ed.present
    THEN IF ed.sel # <<>>
         THEN Effect([ed EXCEPT !.before = ed.before \o text, !.sel = <<>>], f, cb,
                     {"replaced"}, FALSE)
         ELSE Effect(ed, f, cb, {"no-selection"}, FALSE)
    ELSE Effect(ed, f, cb, {"no-editor"}, FALSE)

\* variant: the text goes in at the start of the line
insertAtCursor_AtLineStart(text, ed, f, cb) ==
    IF ed.present
    THEN Effect([ed EXCEPT !.before = text \o ed.before], f, cb, {"inserted"}, FALSE)
    ELSE Effect(ed, f, cb, {"no-editor"}, FALSE)

\* editor.replaceRange(text, cursor): the text goes in at the cursor
insertAtCursor(text, ed, f, cb) ==
    IF ed.present
    THEN Effect([ed EXCEPT !.after = text \o ed.after], f, cb, {"inserted"}, FALSE)
    ELSE Effect(ed, f, cb, {"no-editor"}, FALSE)

\* variant: the text is joined to the content without the newline
appendToCurrentNote_NoNewline(text, ed, f, cb, h) ==
    IF ed.present /\ f.present
    THEN IF ~h.read \/ ~h.modify THEN Effect(ed, f, cb, {}, TRUE)
         ELSE Effect(ed, [f EXCEPT !.content = f.content \o text], cb, {"appended"}, FALSE)
    ELSE Effect(ed, f, cb, {"no-note"}, FALSE)

\* activeView.file is the active file when a MarkdownView is the active view
appendToCurrentNote(text, ed, f, cb, h) ==
    IF ed.present /\ f.present
    THEN IF ~h.read \/ ~h.modify THEN Effect(ed, f, cb, {}, TRUE)
         ELSE Effect(ed, [f EXCEPT !.content = f.content \o <<"\n">> \o text], cb,
                     {"appended"}, FALSE)
    ELSE Effect(ed, f, cb, {"no-note"}, FALSE)

performAction(action, res, ed, f, cb, h) ==
    CASE action = "copy" -> copyToClipboard(res.output, ed, f, cb, h)
      [] action = "replace" -> replaceSelection(res.output, ed, f, cb)
      [] action = "insert" -> insertAtCursor(res.output, ed, f, cb)
      [] action = "append" -> appendToCurrentNote(res.output, ed, f, cb, h)
      [] OTHER -> Effect(ed, f, cb, {"unknown-action"}, FALSE)

\* the error a failing host call throws: a DOMException (numeric code 0) from
\* the clipboard, a file system error from the vault
ActionError(action) ==
    IF action = "copy"
    THEN [code |-> Num(0), stdout |-> <<>>, stderr |-> <<>>, message |-> <<"D">>]
    ELSE [code |-> Str("ENOENT"), stdout |-> <<>>, stderr |-> <<>>, message |-> <<"F">>]

(***************************************************************************)
(* The results executeCommand builds                                       *)
(***************************************************************************)
\* variant: exitCode is error.code as it comes
ExitCodeOf_Raw(err) == err.code

\* exitCode: error.code || -1
ExitCodeOf(err) == IF Truthy(err.code) THEN err.code ELSE Num(-1)

\* variant: the result records the template in place of the command that ran
SuccessResult_Template(s, cmd, ctx, stdout, stderr) ==
    [success |-> TRUE, output |-> stdout, error |-> stderr, exitCode |-> Num(0),
     command |-> s.command, originalCommand |-> s.command, parameters |-> ctx]

SuccessResult(s, cmd, ctx, stdout, stderr) ==
    [success |-> TRUE, output |-> stdout, error |-> stderr, exitCode |-> Num(0),
     command |-> cmd, originalCommand |-> s.command, parameters |-> ctx]

\* error: error.stderr || error.message || 'An unknown error occurred.'
FailureResult(s, cmd, ctx, err) ==
    [success |-> FALSE, output |-> err.stdout,
     error |-> OrElse(err.stderr, OrElse(err.message, <<"U">>)),
     exitCode |-> ExitCodeOf(err),
     command |-> cmd, originalCommand |-> s.command, parameters |-> ctx]

(***************************************************************************)
(* path.join and the working directory                                     *)
(***************************************************************************)
\* path.sep, and the characters path.join takes for separators
PathSep(plat) == IF plat = "win32" THEN "\\" ELSE "/"
PathSeps(plat) == IF plat = "win32" THEN {"/", "\\"} ELSE {"/"}

\* the segments between separators, empty ones included
RECURSIVE SplitPath(_, _, _)
SplitPath(str, seps, cur) ==
    IF str = <<>> THEN <<cur>>
    ELSE IF Head(str) \in seps THEN <<cur>> \o SplitPath(Tail(str), seps, <<>>)
    ELSE SplitPath(Tail(str), seps, Append(cur, Head(str)))

\* normalizeString: "" and "." are dropped, ".." removes the segment before it,
\* stays when the path is relative and nothing precedes it
RECURSIVE NormalizeSegments(_, _, _)
NormalizeSegments(segs, acc, absolute) ==
    IF segs = <<>> THEN acc
    ELSE IF Head(segs) \in {<<>>, <<".">>} THEN NormalizeSegments(Tail(segs), acc, absolute)
    ELSE IF Head(segs) = <<".", ".">>
         THEN IF acc # <<>> /\ acc[Len(acc)] # <<".", ".">>
              THEN NormalizeSegments(Tail(segs), SubSeq(acc, 1, Len(acc) - 1), absolute)
              ELSE IF absolute THEN NormalizeSegments(Tail(segs), acc, absolute)
              ELSE NormalizeSegments(Tail(segs), Append(acc, Head(segs)), absolute)
    ELSE NormalizeSegments(Tail(segs), Append(acc, Head(segs)), absolute)

RECURSIVE JoinSegments(_, _)
JoinSegments(segs, sep) ==
    IF segs = <<>> THEN <<>>
    ELSE IF Len(segs) = 1 THEN segs[1]
    ELSE segs[1] \o <<sep>> \o JoinSegments(Tail(segs), sep)

\* path.normalize of a non-empty path without a drive or UNC prefix
NormalizePath(plat, str) ==
    LET absolute == str[1] \in PathSeps(plat)
        trailing == str[Len(str)] \in PathSeps(plat)
        body == JoinSegments(NormalizeSegments(SplitPath(str, PathSeps(plat), <<>>),
                                               <<>>, absolute), PathSep(plat))
        rel == IF body = <<>> /\ ~absolute THEN <<".">> ELSE body
        tail == IF rel # <<>> /\ trailing THEN rel \o <<PathSep(plat)>> ELSE rel
    IN  IF absolute THEN <<PathSep(plat)>> \o tail ELSE tail

\* path.join(a, b) for non-empty a and b
pathJoin(plat, a, b) == NormalizePath(plat, a \o <<PathSep(plat)>> \o b)

\* executeCommand: cwd of execOptions
ExecWorkingDir(st, s, ctx, plat) ==
    LET workingDir == OrElse(st.defaultWorkingDirectory, OrElse(ctx["vaultPath"], ProcessCwd))
    IN  IF s.workingDirectory # <<>>
        THEN IF s.useAbsolutePath THEN s.workingDirectory
             ELSE pathJoin(plat, workingDir, s.workingDirectory)
        ELSE workingDir

\* variant: the script's directory is always joined onto the base
TerminalWorkingDir_AlwaysJoin(st, s, ctx, plat) ==
    LET workingDir == OrElse(st.defaultWorkingDirectory, OrElse(ctx["vaultPath"], ProcessCwd))
    IN  IF s.workingDirectory # <<>>
        THEN pathJoin(plat, workingDir, s.workingDirectory)
        ELSE workingDir

\* executeInTerminal: cwd of the spawn options
TerminalWorkingDir(st, s, ctx, plat) ==
    LET workingDir == OrElse(st.defaultWorkingDirectory, OrElse(ctx["vaultPath"], ProcessCwd))
    IN  IF s.workingDirectory # <<>>
        THEN IF s.useAbsolutePath THEN s.workingDirectory
             ELSE pathJoin(plat, workingDir, s.workingDirectory)
        ELSE workingDir

(***************************************************************************)
(* executeCommand, up to the await of the child process                    *)
(***************************************************************************)
\* if (this.settings.showNotifications) new Notice(...)
NotifyOn(ns, kinds) == IF settings.showNotifications THEN ns \cup kinds ELSE ns

Notify(kinds) == NotifyOn(notices, kinds)

\* variant: the options reach exec only
ExecOptionsTimeout_ExecOnly(via) == IF via = "execFile" THEN 0 ELSE ExecTimeoutMs

\* execOptions.timeout, the same object on the execFile and on the exec path
ExecOptionsTimeout(via) == ExecTimeoutMs

\* shellCommand.length > 1 selects execFile, otherwise exec with options.shell
ExecVia(st, plat, e) ==
    IF Len(getShellWithLoginFlag(st, plat, e)) > 1 THEN "execFile" ELSE "exec"

\* child_process arms the kill timer only for a positive timeout
TimerArmed(c) == c.timeout > 0

\* the caller substitutes, then executeCommand runs until it awaits the child;
\* a throw of substituteParameters goes to the catch block of the caller
StartExecution(s, ctx, dialect) ==
    IF substituteThrows(ctx)
    THEN /\ notices' = notices \cup {"command-execution-failed"}
         /\ pc' = "done"
         /\ UNCHANGED <<substitutedCommand, child>>
    ELSE /\ substitutedCommand' = substituteParameters(s.command, ctx, dialect)
         /\ notices' = Notify({IF s.backgroundExecution THEN "running-bg" ELSE "executing"})
         /\ child' = [NoChild EXCEPT
                         !.state = "running",
                         !.via = ExecVia(settings, platform, env),
                         !.shellCommand = getShellWithLoginFlag(settings, platform, env),
                         !.cwd = ExecWorkingDir(settings, s, ctx, platform),
                         !.timeout = ExecOptionsTimeout(ExecVia(settings, platform, env))]
         /\ pc' = "running"

\* variant: the constructor leaves results empty
InitialResults_Empty(res, prompts, i) == res

\* PromptModal constructor: results[prompt.name] = '' for each prompt
RECURSIVE InitialResults(_, _, _)
InitialResults(res, prompts, i) ==
    IF i > Len(prompts) THEN res
    ELSE InitialResults(SetEntry(res, prompts[i], <<>>), prompts, i + 1)

\* the body shared by executeUserCommand and CommandSelectorModal.executeCommand
Invoke(e, s, dialect) ==
    /\ pc = "idle"
    /\ entry' = e
    /\ script' = s
    /\ runShescape' = dialect
    /\ \E readOk \in BOOLEAN :
         LET ctx == getParameterContext(editor, file, adapter, readOk) IN
         /\ context' = ctx
         /\ IF Len(s.prompts) > 0
            THEN /\ promptResults' = InitialResults(<<>>, s.prompts, 1)
                 /\ pc' = "prompt"
                 /\ UNCHANGED <<substitutedCommand, child, notices>>
            ELSE /\ StartExecution(s, ctx, dialect)
                 /\ UNCHANGED promptResults
    /\ UNCHANGED <<tabVars, platform, env, adapter, settings, editor, file, clipboard, pluginShescape,
                   result, rejected, modalOpened, actionsCompleted, actionThrew>>

\* main.ts: the palette callback, on the plugin's executor
executeUserCommand(s) == Invoke("palette", s, pluginShescape)

\* CommandSelectorModal.executeCommand, on the executor the modal constructed
SelectorExecuteCommand(s) ==
    Invoke("selector", s, createShescapeInstance(settings, platform, env))

\* the input listener of a prompt field
PromptInput(i, v) ==
    /\ pc = "prompt"
    /\ i \in 1..Len(script.prompts)
    /\ promptResults' = SetEntry(promptResults, script.prompts[i], v)
    /\ UNCHANGED <<tabVars, platform, env, adapter, settings, editor, file, clipboard, pluginShescape, pc,
                   entry, script, runShescape, context, substitutedCommand, child, result,
                   rejected, modalOpened, actionsCompleted, actionThrew, notices>>

\* PromptModal.submit: onSubmit(results), then close
PromptSubmit ==
    /\ pc = "prompt"
    /\ context' = WithPrompts(context, promptResults)
    /\ StartExecution(script, WithPrompts(context, promptResults), runShescape)
    /\ UNCHANGED <<tabVars, platform, env, adapter, settings, editor, file, clipboard, pluginShescape,
                   entry, script, runShescape, promptResults, result, rejected,
                   modalOpened, actionsCompleted, actionThrew>>

\* Cancel button, Escape: close without onSubmit
PromptCancel ==
    /\ pc = "prompt"
    /\ pc' = "done"
    /\ UNCHANGED <<tabVars, platform, env, adapter, settings, editor, file, clipboard, pluginShescape,
                   entry, script, runShescape, context, promptResults, substitutedCommand,
                   child, result, rejected, modalOpened, actionsCompleted, actionThrew,
                   notices>>

(***************************************************************************)
(* executeCommand, from the settling of the awaited child to its return    *)
(***************************************************************************)
\* variant: the try block ends before the handling of the result
InsideTry_ExecOnly(point) == point = "exec"

\* whether a throw at this point of executeCommand ("exec": the awaited
\* child, "action": performAction) is inside its try block
InsideTry(point) == TRUE

\* if (script.defaultAction && script.defaultAction !== 'none')
HasDefaultAction(s) == s.defaultAction # "none"

\* variant: the catch block mirrors the condition of the try block
CatchOpensModal_NoAction(s) == ~s.backgroundExecution /\ ~HasDefaultAction(s)

\* variant: the catch block opens the modal for every script
CatchOpensModal_Always(s) == TRUE

\* the catch block opens the modal for every non-background script
CatchOpensModal(s) == ~s.backgroundExecution

Outcome(r, rej, ed, f, cb, modals, acts, ns) ==
    [result |-> r, rejected |-> rej, editor |-> ed, file |-> f, clipboard |-> cb,
     modals |-> modals, actions |-> acts, notices |-> ns, threw |-> FALSE]

\* a throw that escapes executeCommand reaches the catch of its caller
Escapes(ed, f, cb, ns) ==
    Outcome(<<>>, TRUE, ed, f, cb, 0, 0, ns \cup {"command-execution-failed"})

\* the catch block
AfterFailure(s, cmd, ctx, err, ed, f, cb, ns) ==
    Outcome(<<FailureResult(s, cmd, ctx, err)>>, FALSE, ed, f, cb,
            IF CatchOpensModal(s) THEN 1 ELSE 0, 0,
            NotifyOn(ns, {IF s.backgroundExecution THEN "failed-bg" ELSE "failed"}))

\* the try block after the await
AfterSuccess(s, cmd, ctx, stdout, stderr, ed, f, cb, ns, h) ==
    LET r == SuccessResult(s, cmd, ctx, stdout, stderr)
        n1 == NotifyOn(ns, {IF s.backgroundExecution THEN "completed-bg" ELSE "completed"})
        eff == performAction(s.defaultAction, r, ed, f, cb, h)
    IN  IF s.backgroundExecution THEN Outcome(<<r>>, FALSE, ed, f, cb, 0, 0, n1)
        ELSE IF HasDefaultAction(s)
             THEN IF eff.threw
                  THEN [(IF InsideTry("action")
                         THEN AfterFailure(s, cmd, ctx, ActionError(s.defaultAction),
                                           ed, f, cb, n1)
                         ELSE Escapes(ed, f, cb, n1)) EXCEPT !.threw = TRUE]
                  ELSE Outcome(<<r>>, FALSE, eff.editor, eff.file, eff.clipboard, 0, 1,
                               n1 \cup eff.notices)
             ELSE Outcome(<<r>>, FALSE, ed, f, cb, 1, 0, n1)

\* the awaited promise rejects with err
AfterError(s, cmd, ctx, err, ed, f, cb, ns) ==
    IF InsideTry("exec") THEN AfterFailure(s, cmd, ctx, err, ed, f, cb, ns)
    ELSE Escapes(ed, f, cb, ns)

\* executeCommand returns (or rejects) and its caller finishes
Return(o, how, code, stdout, stderr) ==
    /\ result' = o.result
    /\ actionThrew' = o.threw
    /\ rejected' = o.rejected
    /\ editor' = o.editor
    /\ file' = o.file
    /\ clipboard' = o.clipboard
    /\ modalOpened' = modalOpened + o.modals
    /\ actionsCompleted' = actionsCompleted + o.actions
    /\ notices' = o.notices
    /\ child' = [child EXCEPT !.state = "ended", !.elapsed = 0, !.outcome = how,
                                !.code = code, !.stdout = stdout, !.stderr = stderr]
    /\ pc' = "done"
    /\ UNCHANGED <<tabVars, platform, env, adapter, settings, pluginShescape, entry, script, runShescape,
                   context, promptResults, substitutedCommand>>

Awaiting == pc = "running" /\ child.state = "running"

\* the child may still exit by itself: the kill timer, if armed, has not fired
BeforeTimeout == TimerArmed(child) => child.elapsed < child.timeout

\* time passes while the child runs
Tick ==
    /\ Awaiting
    /\ child.elapsed < (IF TimerArmed(child) THEN child.timeout ELSE MaxElapsedMs)
    /\ child' = [child EXCEPT !.elapsed =
                    IF TimerArmed(child) /\ child.elapsed + TickMs > child.timeout
                    THEN child.timeout ELSE child.elapsed + TickMs]
    /\ UNCHANGED <<tabVars, platform, env, adapter, settings, editor, file, clipboard, pluginShescape, pc,
                   entry, script, runShescape, context, promptResults, substitutedCommand,
                   result, rejected, modalOpened, actionsCompleted, actionThrew, notices>>

\* the child exits with code 0
ChildExitsZero(stdout, stderr, h) ==
    /\ Awaiting /\ BeforeTimeout
    /\ Return(AfterSuccess(script, substitutedCommand, context, stdout, stderr,
                           editor, file, clipboard, notices, h),
              "exit0", Num(0), stdout, stderr)

\* the child exits with a non-zero code
ChildExitsNonZero(code, stdout, stderr) ==
    /\ Awaiting /\ BeforeTimeout
    /\ Return(AfterError(script, substitutedCommand, context,
                         [code |-> Num(code), stdout |-> stdout, stderr |-> stderr,
                          message |-> <<"C">>],
                         editor, file, clipboard, notices),
              "exit", Num(code), stdout, stderr)

\* the child cannot be started: shell binary or working directory missing
SpawnError ==
    /\ Awaiting /\ child.elapsed = 0
    /\ Return(AfterError(script, substitutedCommand, context,
                         [code |-> Str("ENOENT"), stdout |-> <<>>, stderr |-> <<>>,
                          message |-> <<"E">>],
                         editor, file, clipboard, notices),
              "spawn-error", Str("ENOENT"), <<>>, <<>>)

\* the kill timer fires: the child is killed, the error carries code null
\* and what the streams had buffered
Timeout(stdout, stderr) ==
    /\ Awaiting /\ TimerArmed(child) /\ child.elapsed >= child.timeout
    /\ Return(AfterError(script, substitutedCommand, context,
                         [code |-> Null, stdout |-> stdout, stderr |-> stderr,
                          message |-> <<"C">>],
                         editor, file, clipboard, notices),
              "timeout", Null, stdout, stderr)

\* a stream exceeds maxBuffer: the child is killed
MaxBufferExceeded(stdout, stderr) ==
    /\ Awaiting /\ BeforeTimeout
    /\ Return(AfterError(script, substitutedCommand, context,
                         [code |-> Str("ERR_CHILD_PROCESS_STDIO_MAXBUFFER"),
                          stdout |-> stdout, stderr |-> stderr, message |-> <<"M">>],
                         editor, file, clipboard, notices),
              "max-buffer", Str("ERR_CHILD_PROCESS_STDIO_MAXBUFFER"), stdout, stderr)

Next ==
    \/ \E s \in Scripts : executeUserCommand(s)
    \/ \E s \in Scripts : SelectorExecuteCommand(s)
    \/ \E i \in 1..2, v \in PromptValues : PromptInput(i, v)
    \/ PromptSubmit
    \/ PromptCancel
    \/ Tick
    \/ \E io \in Streams, h \in HostOutcomesOf(script.defaultAction) :
          ChildExitsZero(io.stdout, io.stderr, h)
    \/ \E c \in FailureCodes, io \in Streams : ChildExitsNonZero(c, io.stdout, io.stderr)
    \/ SpawnError
    \/ Timeout(<<"o">>, <<>>)
    \/ MaxBufferExceeded(<<"o">>, <<>>)

\* while the command runs the user selects the text before the selection
\* ("select"), or activates a view that is not a MarkdownView ("leave")
UserChangesEditor(kind) ==
    /\ Awaiting /\ editor.present
    /\ IF kind = "select"
       THEN /\ editor.before # <<>>
            /\ editor' = [editor EXCEPT !.before = <<>>, !.sel = editor.before,
                                        !.after = editor.sel \o editor.after]
       ELSE editor' = [editor EXCEPT !.present = FALSE]
    /\ UNCHANGED <<tabVars, platform, env, adapter, settings, file, clipboard, pluginShescape, pc,
                   entry, script, runShescape, context, promptResults, substitutedCommand,
                   child, result, rejected, modalOpened, actionsCompleted, actionThrew,
                   notices>>

NextEdit ==
    \/ Next
    \/ \E kind \in {"select", "leave"} : UserChangesEditor(kind)

SpecEdit == Init /\ [][NextEdit]_vars

Spec == Init /\ [][Next]_vars

\* the child is scheduled and the timers of the event loop fire
LiveSpec == Spec /\ WF_vars(Tick) /\ WF_vars(Timeout(<<"o">>, <<>>))

(***************************************************************************)
(* The settings tab: the list of commands, the CommandEditModal with its   *)
(* debounced auto-save, the Shell Program dropdown; and the command        *)
(* palette.  The tab's handlers run while no command is running.           *)
(***************************************************************************)
\* objects the heap may hold: the loaded command and one per modal opened
MaxObjects == 2

\* length settings.commands may reach
MaxCommands == 2

\* what the user may type into the Name field and into the Command field
EditedNames == {<<>>, <<"N">>}
EditedCommands == {<<>>, Cmd_selvault}

\* the options of the Shell Program dropdown
ShellOptions(plat) ==
    IF plat = "win32" THEN {"auto", "cmd", "powershell"}
    ELSE {"auto", "bash", "zsh", "busybox", "csh", "dash"}

\* if (this.command.name.trim() && this.command.command.trim())
Valid(c) == c.name # <<>> /\ c.command # <<>>

TabIdle == pc = "idle" /\ ~editModal.open

RunVars == <<platform, env, adapter, editor, file, clipboard, pluginShescape, pc, entry,
             script, runShescape, context, promptResults, substitutedCommand, child, result,
             rejected, modalOpened, actionsCompleted, actionThrew, notices>>

\* "+ Add New Command": a new object with id cmd-<Date.now()>, of which the
\* modal keeps a copy
AddCommandClick ==
    /\ TabIdle /\ Len(heap) < MaxObjects
    /\ now' = now + 1
    /\ heap' = Append(heap, [ScriptOf(<<>>, FALSE, "none") EXCEPT !.id = now + 1])
    /\ editModal' = [open |-> TRUE, mode |-> "add", index |-> 0, command |-> Len(heap) + 1,
                     saveTimeout |-> FALSE, unsaved |-> FALSE]
    /\ UNCHANGED <<settingsCommands, registeredCommandIds, appCommands, settings, RunVars>>

\* "Edit" on row i: the modal keeps a copy { ...command }
EditClick(i) ==
    /\ TabIdle /\ Len(heap) < MaxObjects
    /\ i \in 1..Len(settingsCommands)
    /\ heap' = Append(heap, heap[settingsCommands[i]])
    /\ editModal' = [open |-> TRUE, mode |-> "edit", index |-> i, command |-> Len(heap) + 1,
                     saveTimeout |-> FALSE, unsaved |-> FALSE]
    /\ UNCHANGED <<settingsCommands, registeredCommandIds, appCommands, now, settings, RunVars>>

\* the user changes the Name or the Command field: the handler writes the
\* value into this.command and calls debouncedSave, which (re)arms the timer
ModalEdit(field, value) ==
    /\ pc = "idle" /\ editModal.open
    /\ heap[editModal.command][field] # value
    /\ heap' = [heap EXCEPT ![editModal.command][field] = value]
    /\ editModal' = [editModal EXCEPT !.saveTimeout = TRUE, !.unsaved = TRUE]
    /\ UNCHANGED <<settingsCommands, registeredCommandIds, appCommands, now, settings, RunVars>>

\* the onSave the modal was opened with: push for a new command,
\* commands[index] = updatedCommand for an edited one
onSave(m, cmds) ==
    IF m.mode = "add" THEN Append(cmds, m.command)
    ELSE [cmds EXCEPT ![m.index] = m.command]

\* 500 ms passed since the last edit: the callback of debouncedSave runs
SaveTimeoutFires ==
    /\ pc = "idle" /\ editModal.open /\ editModal.saveTimeout
    /\ editModal.mode = "add" => Len(settingsCommands) < MaxCommands
    /\ IF Valid(heap[editModal.command])
       THEN /\ settingsCommands' = onSave(editModal, settingsCommands)
            /\ saveSettings(onSave(editModal, settingsCommands), heap)
            /\ editModal' = [editModal EXCEPT !.saveTimeout = FALSE, !.unsaved = FALSE]
       ELSE /\ editModal' = [editModal EXCEPT !.saveTimeout = FALSE]
            /\ UNCHANGED <<settingsCommands, registeredCommandIds, appCommands>>
    /\ UNCHANGED <<heap, now, settings, RunVars>>

\* onClose: a pending saveTimeout is cleared
ModalClose ==
    /\ pc = "idle" /\ editModal.open
    /\ editModal' = [editModal EXCEPT !.open = FALSE, !.saveTimeout = FALSE]
    /\ UNCHANGED <<heap, settingsCommands, registeredCommandIds, appCommands, now, settings,
                   RunVars>>

\* the enable checkbox of row i: command.enabled is written in place
ToggleEnabled(i) ==
    /\ TabIdle /\ i \in 1..Len(settingsCommands)
    /\ heap' = [heap EXCEPT ![settingsCommands[i]].enabled = ~heap[settingsCommands[i]].enabled]
    /\ saveSettings(settingsCommands, heap')
    /\ UNCHANGED <<settingsCommands, editModal, now, settings, RunVars>>

\* delete on row i, confirmed: commands.splice(index, 1)
DeleteClick(i) ==
    /\ TabIdle /\ i \in 1..Len(settingsCommands)
    /\ settingsCommands' = SubSeq(settingsCommands, 1, i - 1)
                              \o SubSeq(settingsCommands, i + 1, Len(settingsCommands))
    /\ saveSettings(settingsCommands', heap)
    /\ UNCHANGED <<heap, editModal, now, settings, RunVars>>

\* the Shell Program dropdown: the setting is written and saved; the executor
\* of the plugin stays the one onload constructed
ShellProgramChange(value) ==
    /\ TabIdle /\ value # settings.shellProgram
    /\ settings' = [settings EXCEPT !.shellProgram = value]
    /\ saveSettings(settingsCommands, heap)
    /\ UNCHANGED <<heap, settingsCommands, editModal, now, RunVars>>

\* the user picks the k-th command added to the palette: its callback calls
\* executeUserCommand with the script object it captured
PaletteInvoke(k) ==
    /\ TabIdle /\ k \in 1..Len(appCommands)
    /\ executeUserCommand(heap[appCommands[k].script])

\* the settings read from the data file have the command enabled or disabled
InitLoaded(platforms, enableds) ==
    /\ \E en \in enableds : Onload(en)
    /\ platform \in platforms
    /\ env \in [SHELL : {<<>>, <<"", "bin", "zsh">>}, COMSPEC : {""}]
    /\ (platform = "win32") = (env.SHELL = <<>>)
    /\ adapter = [resource |-> AppResource, throws |-> FALSE, basePath |-> VaultRoot]
    /\ settings = [shellProgram |-> "auto", useLoginShell |-> FALSE,
                   showNotifications |-> TRUE, defaultWorkingDirectory |-> <<>>]
    /\ editor = [present |-> TRUE, line |-> 0, before |-> <<"x">>, sel |-> <<>>,
                 after |-> <<"y">>]
    /\ file = [present |-> TRUE, content |-> <<"n">>]
    /\ clipboard = <<>>
    /\ pluginShescape = createShescapeInstance(settings, platform, env)
    /\ pc = "idle"
    /\ entry = "none"
    /\ script = NoScript
    /\ runShescape = "none"
    /\ context = <<>>
    /\ promptResults = <<>>
    /\ substitutedCommand = <<>>
    /\ child = NoChild
    /\ result = <<>>
    /\ rejected = FALSE
    /\ modalOpened = 0
    /\ actionsCompleted = 0
    /\ actionThrew = FALSE
    /\ notices = {}

NextSettings ==
    \/ AddCommandClick
    \/ \E i \in 1..MaxCommands : EditClick(i)
    \/ \E v \in EditedNames : ModalEdit("name", v)
    \/ \E v \in EditedCommands : ModalEdit("command", v)
    \/ SaveTimeoutFires
    \/ ModalClose
    \/ \E i \in 1..MaxCommands : ToggleEnabled(i)
    \/ \E i \in 1..MaxCommands : DeleteClick(i)
    \/ \E k \in 1..MaxObjects : PaletteInvoke(k)

SpecSettings == InitLoaded({"linux"}, BOOLEAN) /\ [][NextSettings]_vars

\* the Use Login Shell toggle, shown off Windows
UseLoginShellChange ==
    /\ TabIdle /\ platform # "win32"
    /\ settings' = [settings EXCEPT !.useLoginShell = ~settings.useLoginShell]
    /\ saveSettings(settingsCommands, heap)
    /\ UNCHANGED <<heap, settingsCommands, editModal, now, RunVars>>

\* the command selector lists the enabled commands; the one chosen runs on
\* the executor the selector constructed when it was opened
SelectorChoose(i) ==
    /\ TabIdle /\ i \in 1..Len(settingsCommands) /\ heap[settingsCommands[i]].enabled
    /\ SelectorExecuteCommand(heap[settingsCommands[i]])

\* changes of the shell settings, then a run from the palette or the selector
NextShell ==
    \/ \E v \in ShellOptions(platform) : ShellProgramChange(v)
    \/ UseLoginShellChange
    \/ \E k \in 1..MaxObjects : PaletteInvoke(k)
    \/ \E i \in 1..MaxCommands : SelectorChoose(i)
    \/ \E io \in Streams, h \in HostOutcomesOf(script.defaultAction) :
          ChildExitsZero(io.stdout, io.stderr, h)
    \/ SpawnError

SpecShell == InitLoaded({"linux", "win32"}, {TRUE}) /\ [][NextShell]_vars

(***************************************************************************)
(* executeInTerminal.  No code of the plugin calls it; it is exercised     *)
(* here as the public method it is, with the arguments the two callers of  *)
(* executeCommand would pass.                                              *)
(***************************************************************************)
\* selectedShell.includes('powershell'), over the shells getSelectedShell yields
IncludesPowershell(shell) == shell = "powershell.exe"

\* the program spawn is given
SpawnedProgram(st, plat, e) ==
    IF plat = "win32"
    THEN IF IncludesPowershell(getShellWithLoginFlag(st, plat, e)[1])
         THEN "powershell.exe" ELSE "cmd.exe"
    ELSE getShellWithLoginFlag(st, plat, e)[1]

\* spawnThrows: spawn throws synchronously instead of returning a child
executeInTerminal(s, spawnThrows) ==
    /\ pc = "idle"
    /\ Len(s.prompts) = 0
    /\ entry' = "terminal"
    /\ script' = s
    /\ runShescape' = pluginShescape
    /\ \E readOk \in BOOLEAN :
         LET ctx == getParameterContext(editor, file, adapter, readOk) IN
         /\ context' = ctx
         /\ substitutedCommand' = substituteParameters(s.command, ctx, pluginShescape)
         /\ IF spawnThrows
            THEN /\ notices' = Notify({"executing-in-shell"}) \cup {"shell-failed"}
                 /\ rejected' = TRUE
                 /\ child' = child
            ELSE /\ notices' = Notify({"executing-in-shell"})
                 /\ rejected' = FALSE
                 /\ child' = [NoChild EXCEPT
                        !.state = "running", !.detached = TRUE,
                        !.via = SpawnedProgram(settings, platform, env),
                        !.shellCommand = getShellWithLoginFlag(settings, platform, env),
                        !.cwd = TerminalWorkingDir(settings, s, ctx, platform)]
    /\ pc' = "done"
    /\ UNCHANGED <<tabVars, platform, env, adapter, settings, editor, file, clipboard, pluginShescape,
                   promptResults, result, modalOpened, actionsCompleted, actionThrew>>

\* the detached child emits 'error': the listener shows a notice
TerminalChildError ==
    /\ child.detached /\ child.state = "running"
    /\ notices' = notices \cup {"shell-failed"}
    /\ child' = [child EXCEPT !.state = "ended", !.outcome = "spawn-error",
                              !.code = Str("ENOENT")]
    /\ UNCHANGED <<tabVars, platform, env, adapter, settings, editor, file, clipboard, pluginShescape, pc,
                   entry, script, runShescape, context, promptResults, substitutedCommand,
                   result, rejected, modalOpened, actionsCompleted, actionThrew>>

\* the detached child exits; nothing listens
TerminalChildExit(code) ==
    /\ child.detached /\ child.state = "running"
    /\ child' = [child EXCEPT !.state = "ended", !.outcome = "exit", !.code = Num(code)]
    /\ UNCHANGED <<tabVars, platform, env, adapter, settings, editor, file, clipboard, pluginShescape, pc,
                   entry, script, runShescape, context, promptResults, substitutedCommand,
                   result, rejected, modalOpened, actionsCompleted, actionThrew, notices>>

NextTerminal ==
    \/ \E s \in Scripts, t \in BOOLEAN : executeInTerminal(s, t)
    \/ TerminalChildError
    \/ \E c \in {0} \cup FailureCodes : TerminalChildExit(c)

SpecTerminal == Init /\ [][NextTerminal]_vars

(***************************************************************************)
(* The three entry points over the configurations of the host: platform,   *)
(* environment, settings, vault adapter, editor and working directories.   *)
(***************************************************************************)
\* values of process.env.SHELL: unset, a listed shell, another shell, a path
\* that ends with a slash
ShellValues == {<<>>, <<"", "bin", "zsh">>, <<"", "bin", "fish">>, <<"", "bin", "bash", "">>}

ComspecValues == {"", "C:\\Windows\\system32\\cmd.exe"}

\* values of settings.shellProgram in data.json
ShellPrograms == {"auto", "zsh", "cmd"}

Adapters ==
    {[resource |-> AppResource, throws |-> FALSE, basePath |-> <<>>],
     [resource |-> EscapedResource, throws |-> FALSE, basePath |-> <<>>],
     [resource |-> MalformedResource, throws |-> FALSE, basePath |-> VaultRoot],
     [resource |-> AppResource, throws |-> TRUE, basePath |-> VaultRoot]}

Editors ==
    {[present |-> FALSE, line |-> 0, before |-> <<"x">>, sel |-> <<>>, after |-> <<"y">>],
     [present |-> TRUE, line |-> 0, before |-> <<"x">>, sel |-> <<>>, after |-> <<"y">>],
     [present |-> TRUE, line |-> 2, before |-> <<"x">>, sel |-> <<"s">>, after |-> <<"y">>]}

WorkingDirectories == {<<>>, <<"s">>, <<".", ".", "/", "t">>}

DefaultWorkingDirectories == {<<>>, <<"/", "d">>}

HostScriptOf(wd, abs) ==
    [ScriptOf(Cmd_pwd, FALSE, "none") EXCEPT !.workingDirectory = wd, !.useAbsolutePath = abs]

HostScripts ==
    {HostScriptOf(wd, abs) : wd \in WorkingDirectories, abs \in BOOLEAN} \ {HostScriptOf(<<>>, TRUE)}

\* the constructor of the plugin's executor returned: a Shescape was built
\* for the configured shell or for the bash fallback
ExecutorConstructed(st, plat, e) ==
    \/ ShescapeSupports(plat, getShellNameForShescape(st, plat, e))
    \/ ShescapeSupports(plat, "bash")

InitHost ==
    /\ platform \in {"linux", "win32"}
    /\ env \in [SHELL : ShellValues, COMSPEC : ComspecValues]
    /\ platform = "win32" => env.SHELL = <<>>
    /\ platform # "win32" => env.COMSPEC = ""
    /\ adapter \in Adapters
    /\ settings \in [shellProgram : ShellPrograms,
                     useLoginShell : BOOLEAN,
                     showNotifications : {TRUE},
                     defaultWorkingDirectory : DefaultWorkingDirectories]
    /\ ExecutorConstructed(settings, platform, env)
    /\ editor \in Editors
    /\ file \in [present : BOOLEAN, content : {<<"n">>}]
    /\ clipboard = <<>>
    /\ pluginShescape = createShescapeInstance(settings, platform, env)
    /\ Onload(TRUE)
    /\ pc = "idle"
    /\ entry = "none"
    /\ script = NoScript
    /\ runShescape = "none"
    /\ context = <<>>
    /\ promptResults = <<>>
    /\ substitutedCommand = <<>>
    /\ child = NoChild
    /\ result = <<>>
    /\ rejected = FALSE
    /\ modalOpened = 0
    /\ actionsCompleted = 0
    /\ actionThrew = FALSE
    /\ notices = {}

NextHost ==
    \/ \E s \in HostScripts : executeUserCommand(s)
    \/ \E s \in HostScripts : SelectorExecuteCommand(s)
    \/ \E s \in HostScripts, t \in BOOLEAN : executeInTerminal(s, t)

SpecHost == InitHost /\ [][NextHost]_vars

(***************************************************************************)
(* The palette command and the prompt modal over templates with prompt     *)
(* tokens                                                                  *)
(***************************************************************************)
NextSubst ==
    \/ \E s \in SubstScripts : executeUserCommand(s)
    \/ \E v \in SubstValues : PromptInput(1, v)
    \/ PromptSubmit

SpecSubst == Init /\ [][NextSubst]_vars

(***************************************************************************)
(* Properties                                                              *)
(***************************************************************************)
\* substituteParameters has produced substitutedCommand from script and context
Substituted == child.state # "none" \/ entry = "terminal"

\* executeCommand was called and has returned or thrown
Returned == pc = "done" /\ child.state = "ended" /\ entry \in {"palette", "selector"}

\* every match of one replace call is replaced with exactly repl
InsertsExactly(ts, atoms, repl) ==
    \A i \in MatchStarts(ts, 1, atoms) : Replacement(ts, i, atoms, repl) = repl

\* no match of one replace call covers a character a replacement put there
MatchesTemplateOnly(ts, atoms) ==
    \A i \in MatchStarts(ts, 1, atoms) : \A j \in i..(i + Len(atoms) - 1) : ~ts[j].v

RECURSIVE EveryPassInsertsEscaped(_, _, _, _)
EveryPassInsertsEscaped(ts, subs, k, dialect) ==
    IF k > Len(subs) THEN TRUE
    ELSE /\ InsertsExactly(ts, PlaceholderRegex(subs[k][1]),
                           escapeShellArgument(dialect, subs[k][2]))
         /\ EveryPassInsertsEscaped(
                ReplaceAll(ts, PlaceholderRegex(subs[k][1]),
                           escapeShellArgument(dialect, subs[k][2])),
                subs, k + 1, dialect)

RECURSIVE NoPassRescans(_, _, _, _)
NoPassRescans(ts, subs, k, dialect) ==
    IF k > Len(subs) THEN TRUE
    ELSE /\ MatchesTemplateOnly(ts, PlaceholderRegex(subs[k][1]))
         /\ NoPassRescans(
                ReplaceAll(ts, PlaceholderRegex(subs[k][1]),
                           escapeShellArgument(dialect, subs[k][2])),
                subs, k + 1, dialect)

\* C1: in substituteParameters, the text put in place of each placeholder
\* occurrence is the output of escapeShellArgument for the context value, for
\* every template and context.
C1_InsertedTextIsEscaped ==
    Substituted =>
        EveryPassInsertsEscaped(Tagged(script.command, FALSE), Substitutions(context), 1,
                                runShescape)

\* C2: substituteParameters does not double-substitute: text inserted for one
\* placeholder is never matched as (part of) a placeholder by a later pass.
C2_NoDoubleSubstitution ==
    Substituted =>
        NoPassRescans(Tagged(script.command, FALSE), Substitutions(context), 1, runShescape)

\* C3: every result returned by executeCommand has
\* command = substituteParameters(originalCommand, parameters), on the palette
\* and on the selector path, with or without prompts.
C3_RoundTrip ==
    \A i \in 1..Len(result) :
        result[i].command =
            substituteParameters(result[i].originalCommand, result[i].parameters, runShescape)

C3_Witness ==
    /\ Returned /\ result # <<>>
    /\ entry = "selector"
    /\ Has(result[1].parameters, "prompts")
    /\ \E i \in 1..Len(result[1].parameters["prompts"]) :
           result[1].parameters["prompts"][i][2] # <<>>
    /\ result[1].command # result[1].originalCommand

\* C4: executeCommand never throws; a launch failure, a non-zero exit, a
\* timeout, an output overflow and a failing default action each come back
\* as a result with success = FALSE.
C4_NeverThrows ==
    /\ entry \in {"palette", "selector"} => ~rejected
    /\ Returned => result # <<>>
    /\ (Returned /\ (child.outcome # "exit0" \/ actionThrew)) => ~result[1].success

C4_Witness ==
    /\ Returned /\ actionThrew /\ child.outcome = "exit0"
    /\ ~rejected /\ result # <<>> /\ ~result[1].success

\* C5: for a non-background script a call of executeCommand ends with exactly
\* one of: the default action performed (performAction ran to its end), the
\* result handed to the result modal.
C5_ActionXorModal ==
    (Returned /\ ~script.backgroundExecution) => actionsCompleted + modalOpened = 1

C5_Witness ==
    /\ Returned /\ ~script.backgroundExecution /\ script.defaultAction = "copy"
    /\ child.outcome = "exit" /\ modalOpened = 1 /\ actionsCompleted = 0

\* C6: triggering a background script never produces a CommandExecutionResult
\* and never leaves the caller awaiting the exit of the child.
C6_BackgroundDetached ==
    (entry \in {"palette", "selector"} /\ script.backgroundExecution) =>
        (result = <<>> /\ ~Awaiting)

\* C7: a launch error in executeInTerminal only shows a notice; the promise
\* of executeInTerminal never rejects.
C7_LaunchErrorOnlyNotice ==
    entry = "terminal" => ~rejected

\* C8: when the child exits with code 0 within the timeout and the output
\* bound, executeCommand returns success = TRUE, exitCode = 0 and the captured
\* stdout and stderr, for every defaultAction and every state of the editor.
C8_ExitZeroIsSuccess ==
    (Returned /\ child.outcome = "exit0") =>
        /\ result # <<>>
        /\ result[1].success
        /\ result[1].exitCode = Num(0)
        /\ result[1].output = child.stdout
        /\ result[1].error = child.stderr

\* C9: in a failure result exitCode is the numeric exit code the process
\* reported, or -1 when the process never started or reported no code; error
\* is the captured stderr or, when that is empty, the failure message.
C9_FailureExitCode ==
    (Returned /\ result # <<>> /\ ~result[1].success /\ ~actionThrew) =>
        /\ result[1].exitCode.t = "num"
        /\ child.outcome = "exit" => result[1].exitCode = child.code
        /\ child.outcome \in {"spawn-error", "timeout"} => result[1].exitCode = Num(-1)
        /\ child.stderr # <<>> => result[1].error = child.stderr

\* C10: a foreground execution is bounded by the 30000 ms timeout on the
\* execFile and on the exec path: it never runs longer, a timed-out run
\* returns success = FALSE with exit code -1, and no run stays pending.
C10_TimeoutBounds ==
    /\ [](Awaiting => child.elapsed <= ExecTimeoutMs)
    /\ []((Returned /\ child.outcome = "timeout") =>
            (result # <<>> /\ ~result[1].success /\ result[1].exitCode = Num(-1)))
    /\ (Awaiting ~> Returned)

C10_Witness ==
    /\ Returned /\ child.outcome = "timeout" /\ child.via = "execFile"
    /\ result # <<>> /\ ~result[1].success /\ result[1].exitCode = Num(-1)

\* C11: the working directory is the base (defaultWorkingDirectory, else the
\* vault path, else process.cwd()) when the script names none, the script's
\* directory verbatim when useAbsolutePath is set, and otherwise
\* path.join(base, script.workingDirectory); executeCommand and
\* executeInTerminal agree.
C11_WorkingDirectory ==
    (entry # "none" /\ child.state # "none") =>
        LET base == IF settings.defaultWorkingDirectory # <<>>
                    THEN settings.defaultWorkingDirectory
                    ELSE IF context["vaultPath"] # <<>> THEN context["vaultPath"]
                    ELSE ProcessCwd
        IN  child.cwd = IF script.workingDirectory = <<>> THEN base
                        ELSE IF script.useAbsolutePath THEN script.workingDirectory
                        ELSE pathJoin(platform, base, script.workingDirectory)

C11_Witness ==
    /\ entry = "terminal" /\ child.state = "running" /\ platform = "linux"
    /\ settings.defaultWorkingDirectory = <<>> /\ context["vaultPath"] = <<>>
    /\ script.workingDirectory = <<".", ".", "/", "t">> /\ ~script.useAbsolutePath
    /\ child.cwd = <<"/", "t">>

\* executeCommand returns in this step after the child exited with code 0 and
\* the default action of a foreground script was dispatched
ActionStep(action) ==
    /\ pc = "running" /\ pc' = "done" /\ child'.outcome = "exit0"
    /\ ~script.backgroundExecution /\ script.defaultAction = action

\* the notices one call of performAction may show
ActionNotices ==
    {"copied", "replaced", "no-selection", "no-editor", "inserted", "appended", "no-note",
     "unknown-action"}

\* C12: performAction never throws: for copy, replace, insert and append and
\* for every state of the host (no editor, no document, clipboard write
\* failing, document read or write failing) it shows a notice and completes.
C12_ActionNeverThrows ==
    (Returned /\ child.outcome = "exit0" /\ ~script.backgroundExecution
        /\ HasDefaultAction(script)) =>
            /\ ~actionThrew
            /\ actionsCompleted = 1
            /\ notices \cap ActionNotices # {}

\* C13: the replace action leaves the document unchanged and only shows a
\* notice when there is no active editor or the selection is empty; with a
\* non-empty selection it replaces that selection with result.output.
C13_ReplaceAction ==
    [][ActionStep("replace") =>
          IF editor.present /\ editor.sel # <<>>
          THEN /\ EditorText(editor') = editor.before \o result'[1].output \o editor.after
               /\ "replaced" \in notices'
          ELSE /\ editor' = editor
               /\ notices' \ notices =
                      {"completed", IF editor.present THEN "no-selection" ELSE "no-editor"}
               /\ file' = file /\ clipboard' = clipboard /\ result'[1].success]_vars

C13_Witness ==
    /\ Returned /\ child.outcome = "exit0" /\ script.defaultAction = "replace"
    /\ ~script.backgroundExecution /\ "replaced" \in notices
    /\ result[1].output = <<"o">> /\ EditorText(editor) = <<"x", "o", "y">>

LiteralAtoms(p) == [i \in 1..Len(p) |-> [any |-> FALSE, ch |-> p[i]]]

\* the length of a token of the context that occurs in the template at i, 0 if none
TokenLengthAt(t, i, ctx) ==
    LET ls == {Len(Substitutions(ctx)[k][1]) : k \in
                 {k \in 1..Len(Substitutions(ctx)) :
                    MatchAt(Tagged(t, FALSE), i, LiteralAtoms(Substitutions(ctx)[k][1]))}}
    IN  IF ls = {} THEN 0 ELSE CHOOSE l \in ls : \A m \in ls : m <= l

\* the template without the occurrences of the tokens of the context
RECURSIVE OutsideTokens(_, _, _)
OutsideTokens(t, i, ctx) ==
    IF i > Len(t) THEN <<>>
    ELSE IF TokenLengthAt(t, i, ctx) > 0
         THEN OutsideTokens(t, i + TokenLengthAt(t, i, ctx), ctx)
    ELSE <<t[i]>> \o OutsideTokens(t, i + 1, ctx)

\* the characters of the template that are left in the result
RECURSIVE KeptChars(_)
KeptChars(ts) ==
    IF ts = <<>> THEN <<>>
    ELSE IF Head(ts).v THEN KeptChars(Tail(ts))
    ELSE <<Head(ts).c>> \o KeptChars(Tail(ts))

\* C15: substituteParameters copies to the result, unchanged, every part of
\* the template that is not an occurrence (in any letter case) of one of the
\* ten fixed tokens or of {prompt:k} for a keyword k of context.prompts, also
\* for keywords that hold characters such as '.', '*', '+' or '('.
C15_OtherTextUnchanged ==
    (Substituted /\ entry # "terminal") =>
        KeptChars(SubstituteFrom(Tagged(script.command, FALSE), Substitutions(context), 1,
                                 runShescape))
            = OutsideTokens(script.command, 1, context)

\* C16: for a context with prompt keyword k and value v,
\* substituteParameters("{prompt:k}", ctx) = escapeShellArgument(v), in every
\* letter case of the token and of the keyword as stored in context.prompts.
C16_PromptRoundTrip ==
    (Substituted /\ entry # "terminal" /\ Has(context, "prompts")) =>
        \A i \in 1..Len(context["prompts"]) :
            toLowerCase(script.command) = PH_prompt(context["prompts"][i][1]) =>
                substitutedCommand = escapeShellArgument(runShescape, context["prompts"][i][2])

\* a child was started by one of the three entry points
Started == entry # "none" /\ child.state # "none"

\* the text of SHELL after its last '/'
LastSegment(shell) == shell[Len(shell)]

AutoShellName ==
    IF platform = "win32" THEN "powershell"
    ELSE IF /\ env.SHELL # <<>>
            /\ LastSegment(env.SHELL) \in {"bash", "zsh", "busybox", "csh", "dash"}
         THEN LastSegment(env.SHELL)
         ELSE "bash"

C19_ShellWithLoginFlag ==
    Started =>
        /\ child.shellCommand[1] = getSelectedShell(settings, platform, env)
        /\ IF platform = "win32" \/ ~settings.useLoginShell
           THEN Len(child.shellCommand) = 1
           ELSE Len(child.shellCommand) = 2 /\ child.shellCommand[2] = "-l"

C19_Witness ==
    /\ Started /\ platform = "linux" /\ settings.useLoginShell
    /\ settings.shellProgram = "cmd"
    /\ child.shellCommand = <<"/bin/bash", "-l">>

\* C20: getParameterContext never throws: without an active file activeNote,
\* activeNotePath, activeNoteContent and currentDirectory are absent; without
\* a focused editor selectedText, cursorPosition, currentLine and
\* currentLineNumber are absent; a failed read gives activeNoteContent = "";
\* with a cursor currentLineNumber = cursorPosition.line + 1.
C20_ContextFields ==
    entry # "none" =>
        /\ "command-execution-failed" \notin notices
        /\ Has(context, "vaultPath")
        /\ ~file.present =>
               DOMAIN context \cap {"activeNote", "activeNotePath", "activeNoteContent",
                                    "currentDirectory"} = {}
        /\ file.present =>
               /\ {"activeNote", "activeNotePath", "activeNoteContent", "currentDirectory"}
                      \subseteq DOMAIN context
               /\ context["activeNoteContent"] \in {file.content, <<>>}
        /\ ~editor.present =>
               DOMAIN context \cap {"selectedText", "cursorPosition", "currentLine",
                                    "currentLineNumber"} = {}
        /\ Has(context, "cursorPosition") =>
               /\ context["cursorPosition"].line = editor.line
               /\ context["currentLineNumber"] = context["cursorPosition"].line + 1

C20_Witness ==
    /\ entry # "none" /\ adapter.throws
    /\ file.present /\ context["activeNoteContent"] = <<>> /\ file.content # <<>>
    /\ editor.present /\ context["cursorPosition"].line = 2 /\ context["currentLineNumber"] = 3

\* C21: when executeCommand returns for a script with backgroundExecution, on
\* the success path and on the failure path, no CommandResultModal was opened
\* and no default action ran: the editor, the file and the clipboard are as
\* they were, and only the background notices were added
C21_BackgroundOnlyNotices ==
    [][(pc = "running" /\ pc' = "done" /\ script.backgroundExecution)
        => /\ modalOpened' = modalOpened
           /\ actionsCompleted' = actionsCompleted
           /\ ~actionThrew'
           /\ editor' = editor /\ file' = file /\ clipboard' = clipboard
           /\ notices' \subseteq notices \cup {"completed-bg", "failed-bg"}]_vars

\* a background script with a default action has succeeded
C21_Witness ==
    /\ Returned /\ script.backgroundExecution /\ script.defaultAction = "copy"
    /\ result[1].success /\ "completed-bg" \in notices

\* C29: every result executeCommand returns has success = true exactly when
\* its exitCode is 0; a failure result never carries exitCode 0, whether
\* error.code is a number, 0, null or a string
C29_SuccessIffExitZero ==
    result # <<>> => (result[1].success <=> result[1].exitCode = Num(0))

\* a failure whose error.code is 0 was returned (the clipboard's DOMException
\* after a child that exited with 0)
C29_Witness ==
    /\ Returned /\ actionThrew /\ script.defaultAction = "copy"
    /\ ~result[1].success /\ result[1].exitCode = Num(-1)

\* the keywords that have a value in a prompts mapping
PromptKeys(pr) == {pr[j][1] : j \in 1..Len(pr)}

\* the run's script has prompts and its command is substituted and started in this step
PromptedStart ==
    Len(script.prompts) > 0 /\ child.state = "none" /\ child'.state # "none"

\* C24: a script with prompts is substituted and executed only by the submit
\* of its PromptModal, with a value (possibly empty) under every configured
\* keyword in context.prompts, and at most once: after the submit the modal is
\* closed and the substituted command and the context stay what they were.
\* Closing the modal without submitting (Cancel, Escape) substitutes and
\* executes nothing, then and ever after.
C24_PromptGate ==
    [][/\ PromptedStart =>
            /\ pc = "prompt" /\ pc' # "prompt"
            /\ {script.prompts[i] : i \in 1..Len(script.prompts)}
                   \subseteq PromptKeys(context'["prompts"])
            /\ context'["prompts"] = promptResults
            /\ substitutedCommand' = substituteParameters(script.command, context', runShescape)
       /\ (Len(script.prompts) > 0 /\ child.state # "none") =>
            /\ pc' # "prompt"
            /\ substitutedCommand' = substitutedCommand /\ context' = context
       /\ (pc = "prompt" /\ pc' = "done" /\ notices' = notices) =>
            child'.state = "none" /\ substitutedCommand' = <<>>
       /\ (pc = "done" /\ child.state = "none") =>
            child'.state = "none" /\ substitutedCommand' = <<>>]_vars

\* a modal with two prompts was submitted with one field typed into and the
\* other left empty
C24_Witness ==
    /\ Substituted /\ script.command = Cmd_prompt
    /\ context["prompts"] = << <<<<"a">>, <<>>>>, <<<<"b">>, PH_prompt(<<"b">>)>> >>

\* the line the context captured, with the captured selection (which ends at
\* the captured cursor) replaced by text
CapturedLineWith(ctx, text, selLen) ==
    SubSeq(ctx["currentLine"], 1, ctx["cursorPosition"].ch - selLen)
        \o text
        \o SubSeq(ctx["currentLine"], ctx["cursorPosition"].ch + 1, Len(ctx["currentLine"]))

\* C30 as stated: the replace and the insert action act on the selection and
\* the cursor captured in the ParameterContext of the result, even when the
\* user changed the selection, the cursor or the active editor while the
\* command ran.
C30_ActsOnCapturedContext ==
    [][/\ (ActionStep("replace") /\ "selectedText" \in DOMAIN context) =>
            /\ "replaced" \in notices'
            /\ EditorText(editor') =
                   CapturedLineWith(context, result'[1].output, Len(context["selectedText"]))
       /\ (ActionStep("insert") /\ "cursorPosition" \in DOMAIN context) =>
            /\ "inserted" \in notices'
            /\ EditorText(editor') = CapturedLineWith(context, result'[1].output, 0)]_vars

\* C30 amended: the replace and the insert action act on the selection and
\* the cursor the active editor has when the command has finished: what the
\* user selected, or where the user put the cursor, while the command ran; with
\* no selection then, replace changes nothing, and with no active editor then,
\* neither action changes anything.
C30_ActsOnCurrentEditor ==
    [][/\ ActionStep("replace") =>
            IF editor.present /\ editor.sel # <<>>
            THEN /\ "replaced" \in notices'
                 /\ editor' = [editor EXCEPT !.before = editor.before \o result'[1].output,
                                             !.sel = <<>>]
            ELSE /\ editor' = editor
                 /\ (IF editor.present THEN "no-selection" ELSE "no-editor") \in notices'
       /\ ActionStep("insert") =>
            IF editor.present
            THEN /\ "inserted" \in notices'
                 /\ editor' = [editor EXCEPT !.after = result'[1].output \o editor.after]
            ELSE editor' = editor /\ "no-editor" \in notices']_vars

\* the selection was moved while the command ran and the moved one was replaced:
\* the text selected at capture is still in the line
C30_Witness ==
    /\ Returned /\ script.defaultAction = "replace" /\ "replaced" \in notices
    /\ "selectedText" \in DOMAIN context
    /\ EditorText(editor) = result[1].output \o context["selectedText"] \o <<"y">>

\* the stored commands, as objects
StoredCommands == [i \in 1..Len(settingsCommands) |-> heap[settingsCommands[i]]]

\* how often a value occurs in a sequence
Occurrences(seq, x) == Cardinality({k \in 1..Len(seq) : seq[k] = x})

\* how often addCommand was called with an id
AddCommandCalls(cid) == Cardinality({k \in 1..Len(appCommands) : appCommands[k].id = cid})

\* C22: after the load and after every settings change with its saveSettings
\* (add, edit, enable, disable, delete), every enabled command has exactly one
\* palette registration: registeredCommandIds holds "user-command-<id>" once,
\* and addCommand was called for that id at most once.
C22_OneRegistration ==
    /\ \A i \in 1..Len(StoredCommands) :
          StoredCommands[i].enabled =>
              /\ Occurrences(registeredCommandIds, CommandIdOf(StoredCommands[i].id)) = 1
              /\ AddCommandCalls(CommandIdOf(StoredCommands[i].id)) = 1
    /\ \A k \in 1..Len(appCommands) : AddCommandCalls(appCommands[k].id) = 1

\* a command added in the tab was saved twice: settings.commands holds it
\* twice, enabled, and it is registered once, after the loaded command
C22_Witness ==
    /\ Len(StoredCommands) = 2 /\ settingsCommands[1] = settingsCommands[2]
    /\ StoredCommands[1].id = 1 /\ StoredCommands[1].enabled
    /\ registeredCommandIds = <<CommandIdOf(0), CommandIdOf(1)>>

\* C23: once a command is deleted or disabled and the settings are saved,
\* its palette registration remains but is inactive: invoking it never runs
\* the command.  So a run from the palette is a run of a command that
\* settings.commands holds enabled.
C23_RemovedIsInactive ==
    entry = "palette" =>
        \E i \in 1..Len(StoredCommands) :
            StoredCommands[i].id = script.id /\ StoredCommands[i].enabled

\* C25: every edit in the modal that leaves name and command non-empty is
\* passed to onSave with the latest values, also when the modal is closed less
\* than 500 ms after the edit.  So no modal is closed on an edit that is valid
\* and was not passed to onSave.
C25_EditsAreSaved ==
    ~(/\ ~editModal.open /\ editModal.unsaved
      /\ Valid(heap[editModal.command]))

\* C27: the ids of the entries of settings.commands are pairwise distinct;
\* one new command edited in several bursts makes one entry.
C27_DistinctIds ==
    \A i, j \in 1..Len(StoredCommands) :
        i # j => StoredCommands[i].id # StoredCommands[j].id

\* C28: a palette command runs the definition settings.commands holds under
\* its id at the time: after an edit and its save, the edited values.
C28_RunsStoredDefinition ==
    entry = "palette" =>
        \A i \in 1..Len(StoredCommands) :
            StoredCommands[i].id = script.id => script = StoredCommands[i]

\* the escaping dialect that belongs to a shell getSelectedShell returns
DialectOfShell(shell) ==
    CASE shell = "cmd.exe" -> "cmd"
      [] shell = "powershell.exe" -> "powershell"
      [] shell = "/bin/bash" -> "bash"
      [] shell = "/bin/zsh" -> "zsh"
      [] shell = "/bin/busybox" -> "busybox"
      [] shell = "/bin/csh" -> "csh"
      [] shell = "/bin/dash" -> "dash"
      [] OTHER -> "none"

\* C26: after any changes of the shell settings, the dialect an executor's
\* substituteParameters escapes for is the dialect of the shell its
\* executeCommand runs, the one getSelectedShell resolves.
C26_DialectMatchesShell ==
    (entry \in {"palette", "selector"} /\ child.state # "none") =>
        runShescape = DialectOfShell(child.shellCommand[1])

====
